---- MODULE Spec2Model ----
(***************************************************************************)
(* Model of the nft-gallery ("hall of heros") Solana program: the          *)
(* instruction processor of src/src/processor.rs and the instruction       *)
(* decoder of src/src/instruction.rs.                                      *)
(*                                                                         *)
(* The repository account's data is a flat byte buffer; records are stored *)
(* in it in Borsh form at offset hero_id * NFT_RECORD_SIZE.  One action    *)
(* models one call of Processor::process, with every effect of the handler *)
(* it dispatches to: the external calls it invokes (logged in `trace`) and *)
(* the bytes it writes to the repository buffer.                           *)
(***************************************************************************)
EXTENDS Integers, Sequences, FiniteSets, TLC

VARIABLES
    data,     \* repository_account.data: the byte buffer of the repository
    pc,       \* "idle": between instructions; "done": an instruction has returned
    ix,       \* the instruction that has returned (its data, accounts, externals)
    pre,      \* the repository buffer as it was when that instruction started
    result,   \* what Processor::process returned ("Ok", an error, or "Panic")
    trace,    \* the external calls and repository writes that instruction made
    step      \* the step of the handler's doc comment in which it stopped

vars == <<data, pc, ix, pre, result, trace, step>>

----------------------------------------------------------------------------
(* Bounds of the model *)

\* capacity, in bytes, that a slot leaves to content_uri
MaxUriCap == 2

----------------------------------------------------------------------------
(* Constants of the program *)

\* "Now Seat Count is limited to 20"
MAX_SLOTS == 20

\* state::NFT_RECORD_SIZE, the fixed width of a slot: hero_id, the length
\* prefix and bytes of content_uri, key_nft, last_price, listed_price
NFT_RECORD_SIZE == 1 + 4 + MaxUriCap + 32 + 8 + 8

\* Public keys are 32-byte values, modelled by the number they spell in
\* little-endian order.  The system program's id is the all-zero key.
Keys == [system_program |-> 0,
         mint_a |-> 1, mint_b |-> 258,
         alice |-> 3, bob |-> 4, admin |-> 5,
         alice_token |-> 6, admin_token |-> 7, bob_token |-> 8,
         program_id |-> 9, token_program |-> 10, metadata_program |-> 11,
         repository |-> 12, metadata |-> 13, pda |-> 14, other_program |-> 15]

----------------------------------------------------------------------------
(* Byte encodings (Borsh) *)

Min(a, b) == IF a < b THEN a ELSE b

\* n as w little-endian bytes (u32::to_le_bytes, u64::to_le_bytes, [u8; 32])
RECURSIVE LE(_, _)
LE(n, w) == IF w = 0 THEN <<>> ELSE <<n % 256>> \o LE(n \div 256, w - 1)

\* the number spelled by the w little-endian bytes of b that start at index i
RECURSIVE FromLE(_, _, _)
FromLE(b, i, w) == IF w = 0 THEN 0 ELSE b[i] + 256 * FromLE(b, i + 1, w - 1)

\* core::str::from_utf8 from index i of s on: one-byte 00..7F; two-byte
\* C2..DF 80..BF; three-byte E0 A0..BF, E1..EC 80..BF, ED 80..9F, EE..EF
\* 80..BF, each with one more 80..BF; four-byte F0 90..BF, F1..F3 80..BF,
\* F4 80..8F, each with two more 80..BF
RECURSIVE Utf8From(_, _)
Utf8From(s, i) ==
    IF i > Len(s) THEN TRUE
    ELSE LET b == s[i]
             cont(j, lo, hi) == j <= Len(s) /\ s[j] >= lo /\ s[j] <= hi
             three(lo, hi) == /\ cont(i + 1, lo, hi) /\ cont(i + 2, 128, 191)
                              /\ Utf8From(s, i + 3)
             four(lo, hi) == /\ cont(i + 1, lo, hi) /\ cont(i + 2, 128, 191)
                             /\ cont(i + 3, 128, 191) /\ Utf8From(s, i + 4)
         IN  IF b < 128 THEN Utf8From(s, i + 1)
             ELSE IF b >= 194 /\ b <= 223
                  THEN cont(i + 1, 128, 191) /\ Utf8From(s, i + 2)
             ELSE IF b = 224 THEN three(160, 191)
             ELSE IF (b >= 225 /\ b <= 236) \/ b = 238 \/ b = 239 THEN three(128, 191)
             ELSE IF b = 237 THEN three(128, 159)
             ELSE IF b = 240 THEN four(144, 191)
             ELSE IF b >= 241 /\ b <= 243 THEN four(128, 191)
             ELSE IF b = 244 THEN four(128, 143)
             ELSE FALSE

\* String::from_utf8 on the bytes of a content_uri
IsUtf8(s) == Utf8From(s, 1)

\* the little-endian u32 at index i of b is at most m: the two are compared
\* byte by byte from the most significant one, so that every u32 is decided,
\* also one that exceeds the integers the length arithmetic can hold
U32AtMost(b, i, m) ==
    LET r == LE(m, 4)
    IN  \/ b[i + 3] < r[4]
        \/ /\ b[i + 3] = r[4]
           /\ \/ b[i + 2] < r[3]
              \/ /\ b[i + 2] = r[3]
                 /\ \/ b[i + 1] < r[2]
                    \/ b[i + 1] = r[2] /\ b[i] <= r[1]

\* state::NFTRecord, as built at processor.rs:142-148
NFTRecord(hero_id, content_uri, key_nft, last_price, listed_price) ==
    [hero_id |-> hero_id, content_uri |-> content_uri, key_nft |-> key_nft,
     last_price |-> last_price, listed_price |-> listed_price]

\* BorshSerialize for NFTRecord: the fields in declaration order
Serialize(r) ==
    <<r.hero_id>> \o LE(Len(r.content_uri), 4) \o r.content_uri
        \o LE(r.key_nft, 32) \o LE(r.last_price, 8) \o LE(r.listed_price, 8)

\* BorshDeserialize for NFTRecord from the bytes of one slot; trailing bytes
\* are left unread
Deserialize(buf) ==
    LET n == Len(buf)
        len == FromLE(buf, 2, 4)
        bad == [ok |-> FALSE]
    IN  IF n < 5 THEN bad
        ELSE IF ~U32AtMost(buf, 2, n - 5) THEN bad   \* the string is longer than the input left
        ELSE IF ~IsUtf8(SubSeq(buf, 6, 5 + len)) THEN bad
        ELSE IF n - 5 - len < 32 + 8 + 8 THEN bad
        ELSE [ok |-> TRUE,
              rec |-> NFTRecord(buf[1], SubSeq(buf, 6, 5 + len),
                                FromLE(buf, 6 + len, 32),
                                FromLE(buf, 38 + len, 8),
                                FromLE(buf, 46 + len, 8))]

----------------------------------------------------------------------------
(* The record repository *)

\* get_nft_data_from_repository with `&&` for `||` in the key check
get_nft_data_both_keys_differ(hero_id, key_nft, repo, nft_account_key) ==
    LET start == hero_id * NFT_RECORD_SIZE
        end == start + NFT_RECORD_SIZE
        d == Deserialize(SubSeq(repo, start + 1, end))
    IN  IF end > Len(repo) THEN [status |-> "Panic"]
        ELSE IF ~d.ok THEN [status |-> "BorshIoError"]
        ELSE IF d.rec.key_nft # key_nft /\ d.rec.key_nft # nft_account_key
             THEN [status |-> "InvalidNFTKey"]
        ELSE [status |-> "Ok", rec |-> d.rec]

\* get_nft_data_from_repository: the record of slot hero_id, checked against
\* the key argument and the key of the presented account.  The slice
\* data[start..end] panics when the buffer is shorter than end.
get_nft_data_from_repository(hero_id, key_nft, repo, nft_account_key) ==
    LET start == hero_id * NFT_RECORD_SIZE
        end == start + NFT_RECORD_SIZE
        d == Deserialize(SubSeq(repo, start + 1, end))
    IN  IF end > Len(repo) THEN [status |-> "Panic"]
        ELSE IF ~d.ok THEN [status |-> "BorshIoError"]
        ELSE IF d.rec.key_nft # key_nft \/ d.rec.key_nft # nft_account_key
             THEN [status |-> "InvalidNFTKey"]
        ELSE [status |-> "Ok", rec |-> d.rec]

\* save_nft_data_to_repository with the slot's offset off by one byte
save_nft_data_one_byte_off(nft_record, repo) ==
    LET start == nft_record.hero_id * NFT_RECORD_SIZE + 1
        end == start + NFT_RECORD_SIZE
        enc == Serialize(nft_record)
        n == Min(Len(enc), NFT_RECORD_SIZE)
    IN  IF end > Len(repo) THEN [status |-> "Panic", data |-> repo]
        ELSE [status |-> IF Len(enc) <= NFT_RECORD_SIZE THEN "Ok" ELSE "BorshIoError",
              data |-> SubSeq(repo, 1, start) \o SubSeq(enc, 1, n)
                           \o SubSeq(repo, start + n + 1, Len(repo))]

\* save_nft_data_to_repository: serialize the record into the slot of its own
\* hero_id.  Each field is written with write_all on the slot's slice, which
\* copies what fits and then fails: an encoding longer than the slot leaves
\* its first NFT_RECORD_SIZE bytes in the buffer; a shorter one leaves the
\* slot's remaining bytes as they were.
save_nft_data_to_repository(nft_record, repo) ==
    LET start == nft_record.hero_id * NFT_RECORD_SIZE
        end == start + NFT_RECORD_SIZE
        enc == Serialize(nft_record)
        n == Min(Len(enc), NFT_RECORD_SIZE)
    IN  IF end > Len(repo) THEN [status |-> "Panic", data |-> repo]
        ELSE [status |-> IF Len(enc) <= NFT_RECORD_SIZE THEN "Ok" ELSE "BorshIoError",
              data |-> SubSeq(repo, 1, start) \o SubSeq(enc, 1, n)
                           \o SubSeq(repo, start + n + 1, Len(repo))]

----------------------------------------------------------------------------
(* Accounts and external services *)

\* AccountInfo: the fields of an account that the processor reads
AccountInfo(key, is_signer, owner, acc_data) ==
    [key |-> key, is_signer |-> is_signer, owner |-> owner, data |-> acc_data]

\* What a handler returns: the ProgramResult, the repository buffer it leaves,
\* the calls and writes it made, and the step of the handler's doc comment it
\* stopped in (0: the account checks before step 1)
Out(res, repo, tr, st) == [result |-> res, data |-> repo, trace |-> tr, step |-> st]

\* TokenAccount::unpack_from_slice: array_ref! panics on data shorter than
\* the account layout, an invalid tag is InvalidAccountData
TokenAccount_unpack(acc_data) ==
    IF acc_data.shape = "short" THEN [status |-> "Panic"]
    ELSE IF acc_data.shape # "token" THEN [status |-> "InvalidAccountData"]
    ELSE [status |-> "Ok", owner |-> acc_data.owner, mint |-> acc_data.mint,
          amount |-> acc_data.amount]

\* the repository write, as an entry of the trace
SaveEvent(nft_record, status) ==
    [call |-> "save_nft_data_to_repository", record |-> nft_record,
     ok |-> status = "Ok"]

\* sol_transfer with source and destination exchanged
sol_transfer_reversed(source, destination, system_program, amount, ok) ==
    [call |-> "system_instruction::transfer", from |-> destination.key,
     to |-> source.key, amount |-> amount, ok |-> ok]

\* sol_transfer: system_instruction::transfer(source, destination, amount),
\* invoked; `ok` is the system program's answer
sol_transfer(source, destination, system_program, amount, ok) ==
    [call |-> "system_instruction::transfer", from |-> source.key,
     to |-> destination.key, amount |-> amount, ok |-> ok]

\* the signer check left out
SignatureNotChecked(account) == FALSE

\* `if !account.is_signer { return Err(MissingRequiredSignature) }`
MissingSignature(account) == ~account.is_signer

\* the ownership check with the comparison of the mint left out
NotOwnedByAnyMint(token_account_info, holder_account, mint_account) ==
    token_account_info.owner # holder_account.key

\* the ownership check of Update and Buy: the token account must name the
\* holder as its owner and the presented mint as its mint
NotOwnedBy(token_account_info, holder_account, mint_account) ==
    token_account_info.owner # holder_account.key
        \/ token_account_info.mint # mint_account.key

----------------------------------------------------------------------------
(* AddRecord *)

\* Pubkey::from_str on AddRecordArgs.key_nft: a string that is not the
\* base58 text of 32 bytes is an error
Pubkey_from_str(s) == IF s.base58 THEN [ok |-> TRUE, key |-> s.key] ELSE [ok |-> FALSE]

\* process_add_record.  Accounts: adder, repository, associated token
\* account, pda, token program.  The approve call is commented out in the
\* source (lines 121-140): no external call is made.
process_add_record(accounts, args, program_id, repo) ==
    LET n == Len(accounts)
        fail(e) == Out(e, repo, <<>>, 0)
    IN  IF n < 1 THEN fail("NotEnoughAccountKeys")
        ELSE IF MissingSignature(accounts[1]) THEN fail("MissingRequiredSignature")
        ELSE IF n < 2 THEN fail("NotEnoughAccountKeys")
        ELSE IF accounts[2].owner # program_id THEN fail("IncorrectProgramId")
        ELSE IF n < 5 THEN fail("NotEnoughAccountKeys")
        ELSE LET k == Pubkey_from_str(args.key_nft) IN
             IF ~k.ok THEN fail("Panic")
             ELSE LET nft_record == NFTRecord(args.hero_id, args.content_uri, k.key,
                                              args.last_price, args.listed_price)
                      s == save_nft_data_to_repository(nft_record, repo)
                  IN  IF s.status = "Panic" THEN fail("Panic")
                      ELSE Out(s.status, s.data, <<SaveEvent(nft_record, s.status)>>, 0)

----------------------------------------------------------------------------
(* UpdateRecord *)

\* UpdatedRecord that also resets last_price to the new price
UpdatedRecordWithLast(nft_record, args) ==
    [nft_record EXCEPT !.listed_price = args.new_price,
                       !.last_price = args.new_price,
                       !.content_uri = args.content_uri]

\* the record Update writes back: the price and content pointer replaced
UpdatedRecord(nft_record, args) ==
    [nft_record EXCEPT !.listed_price = args.new_price,
                       !.content_uri = args.content_uri]

\* process_update_record.  Accounts: setter, repository, nft mint account,
\* the setter's token account.  args.key_nft is not read.
process_update_record(accounts, args, program_id, repo) ==
    LET n == Len(accounts)
        fail(e) == Out(e, repo, <<>>, 0)
    IN  IF n < 1 THEN fail("NotEnoughAccountKeys")
        ELSE IF MissingSignature(accounts[1]) THEN fail("MissingRequiredSignature")
        ELSE IF n < 2 THEN fail("NotEnoughAccountKeys")
        ELSE IF accounts[2].owner # program_id THEN fail("IncorrectProgramId")
        ELSE IF n < 4 THEN fail("NotEnoughAccountKeys")
        ELSE LET setter_account == accounts[1]
                 nft_account == accounts[3]
                 token_account_info == TokenAccount_unpack(accounts[4].data)
             IN  IF token_account_info.status # "Ok" THEN fail(token_account_info.status)
                 ELSE IF NotOwnedBy(token_account_info, setter_account, nft_account)
                      THEN fail("InvalidArgument")
                 ELSE LET g == get_nft_data_from_repository(
                                   args.hero_id, nft_account.key, repo, nft_account.key)
                      IN  IF g.status # "Ok" THEN fail("Panic")   \* .unwrap()
                          ELSE LET nft_record == UpdatedRecord(g.rec, args)
                                   s == save_nft_data_to_repository(nft_record, repo)
                               IN  IF s.status = "Panic" THEN fail("Panic")
                                   ELSE Out(s.status, s.data,
                                            <<SaveEvent(nft_record, s.status)>>, 0)

----------------------------------------------------------------------------
(* BuyRecord *)
(* Accounts: 1 admin, 2 buyer, 3 previous owner, 4 repository, 5 old nft   *)
(* mint, 6 old nft token account, 7 old nft metadata, 8 new nft mint,      *)
(* 9 token account to send from, 10 token account to receive, 11 token     *)
(* program, 12 token metadata program, 13 system program.                  *)
(* process_buy_record is split at the steps of its doc comment; `ext` holds *)
(* the answers of the external programs to the three invokes.              *)

\* step 5: transfer sol from buyer to prev_owner
BuyPayment(accounts, nft_record, repo, ext, tr) ==
    IF Len(accounts) < 13 THEN Out("NotEnoughAccountKeys", repo, tr, 5)
    ELSE LET pay == sol_transfer(accounts[2], accounts[3], accounts[13],
                                 nft_record.listed_price, ext.payment_ok)
         IN  IF ~pay.ok THEN Out("PaymentFailed", repo, Append(tr, pay), 5)
             ELSE Out("Ok", repo, Append(tr, pay), 6)

\* SoldRecord without the settlement of last_price
SoldRecordKeepingLast(nft_record, new_nft_mint) ==
    [nft_record EXCEPT !.key_nft = new_nft_mint.key]

\* the record Buy writes back: last_price settled, key rebound to the new mint
SoldRecord(nft_record, new_nft_mint) ==
    [nft_record EXCEPT !.last_price = nft_record.listed_price,
                       !.key_nft = new_nft_mint.key]

\* step 4: load the record with the old mint's key, update it, save it
BuyUpdateRecord(accounts, args, repo, ext, tr) ==
    LET old_nft_mint == accounts[5]
        g == get_nft_data_from_repository(
                 args.hero_id, old_nft_mint.key, repo, old_nft_mint.key)
    IN  IF g.status # "Ok" THEN Out("Panic", repo, tr, 4)   \* .unwrap()
        ELSE LET nft_record == SoldRecord(g.rec, accounts[8])
                 s == save_nft_data_to_repository(nft_record, repo)
                 tr2 == Append(tr, SaveEvent(nft_record, s.status))
             IN  IF s.status = "Panic" THEN Out("Panic", repo, tr, 4)
                 ELSE IF s.status # "Ok" THEN Out(s.status, s.data, tr2, 4)
                 ELSE BuyPayment(accounts, nft_record, s.data, ext, tr2)

\* the third step of the code: update_metadata_old_nft, which rewrites the
\* old nft's metadata (the approve of the doc comment's step 3 is not made)
update_metadata_old_nft(admin_account, old_nft_mint, old_nft_metadata_account, token_metadata_program, args, ok) ==
    IF old_nft_metadata_account.data.shape # "metadata"
    THEN [status |-> "Panic"]   \* Metadata::from_account_info(..).unwrap()
    ELSE IF old_nft_metadata_account.owner # token_metadata_program.key
            \/ old_nft_metadata_account.data.mint # old_nft_mint.key
    THEN [status |-> "InvalidAccountData"]
    ELSE [status |-> IF ok THEN "Ok" ELSE "MetadataUpdateFailed",
          event |-> [call |-> "update_metadata_accounts",
                     metadata |-> old_nft_metadata_account.key,
                     update_authority |-> admin_account.key,
                     uri |-> args.dead_uri, name |-> args.dead_name,
                     ok |-> ok]]

BuyMetadata(accounts, args, repo, ext, tr) ==
    IF Len(accounts) < 12 THEN Out("NotEnoughAccountKeys", repo, tr, 3)
    ELSE LET m == update_metadata_old_nft(accounts[1], accounts[5], accounts[7],
                                          accounts[12], args, ext.metadata_ok)
         IN  IF m.status \in {"Panic", "InvalidAccountData"}
             THEN Out(m.status, repo, tr, 3)
             ELSE IF m.status # "Ok" THEN Out(m.status, repo, Append(tr, m.event), 3)
             ELSE BuyUpdateRecord(accounts, args, repo, ext, Append(tr, m.event))

\* BuyTransfer with the `?` after invoke left out: a rejected transfer is
\* ignored and the handler goes on
BuyTransferUnchecked(accounts, args, repo, ext, tr) ==
    IF Len(accounts) < 11 THEN Out("NotEnoughAccountKeys", repo, tr, 2)
    ELSE IF accounts[11].key # Keys.token_program
    THEN Out("IncorrectProgramId", repo, tr, 2)
    ELSE BuyMetadata(accounts, args, repo, ext,
                     Append(tr, [call |-> "spl_token::transfer",
                                 source |-> accounts[9].key,
                                 destination |-> accounts[10].key,
                                 authority |-> accounts[1].key,
                                 amount |-> 1, ok |-> ext.transfer_ok]))

\* step 2: spl_token::instruction::transfer of one unit from the account to
\* send from to the account to receive, with the admin account as authority;
\* building the instruction checks the token program's id
BuyTransfer(accounts, args, repo, ext, tr) ==
    IF Len(accounts) < 11 THEN Out("NotEnoughAccountKeys", repo, tr, 2)
    ELSE IF accounts[11].key # Keys.token_program
    THEN Out("IncorrectProgramId", repo, tr, 2)
    ELSE LET transfer == [call |-> "spl_token::transfer",
                          source |-> accounts[9].key,
                          destination |-> accounts[10].key,
                          authority |-> accounts[1].key,
                          amount |-> 1, ok |-> ext.transfer_ok]
         IN  IF ~transfer.ok THEN Out("TokenTransferFailed", repo, Append(tr, transfer), 2)
             ELSE BuyMetadata(accounts, args, repo, ext, Append(tr, transfer))

\* step 1: verify that prev_owner holds the old nft
BuyVerify(accounts, args, repo, ext) ==
    LET token_account_info == TokenAccount_unpack(accounts[6].data)
    IN  IF token_account_info.status # "Ok"
        THEN Out(token_account_info.status, repo, <<>>, 1)
        ELSE IF NotOwnedBy(token_account_info, accounts[3], accounts[5])
        THEN Out("InvalidArgument", repo, <<>>, 1)
        ELSE BuyTransfer(accounts, args, repo, ext, <<>>)

process_buy_record(accounts, args, program_id, repo, ext) ==
    LET n == Len(accounts)
        fail(e) == Out(e, repo, <<>>, 0)
    IN  IF n < 2 THEN fail("NotEnoughAccountKeys")
        ELSE IF MissingSignature(accounts[2]) THEN fail("MissingRequiredSignature")
        ELSE IF n < 4 THEN fail("NotEnoughAccountKeys")
        ELSE IF accounts[4].owner # program_id THEN fail("IncorrectProgramId")
        ELSE IF n < 7 THEN fail("NotEnoughAccountKeys")
        ELSE BuyVerify(accounts, args, repo, ext)

----------------------------------------------------------------------------
(* Instruction decoding and dispatch *)

\* T::try_from_slice on the bytes after the tag: instruction data is
\* <<tag, payload>>, and a payload that is not the Borsh form of the
\* argument structure of the tag's operation is an error
try_from_slice(rest, kind) ==
    IF Len(rest) = 1 /\ rest[1].kind = kind
    THEN [status |-> "Ok", args |-> rest[1]]
    ELSE [status |-> "BorshIoError"]

\* unpack with every tag other than 0 and 1 taken as BuyRecord
unpack_other_tags_as_buy(input) ==
    IF input = <<>> THEN [status |-> "InvalidInstruction"]
    ELSE LET tag == Head(input)
             rest == Tail(input)
             variant(name, a) == IF a.status = "Ok"
                                 THEN [status |-> "Ok", variant |-> name, args |-> a.args]
                                 ELSE [status |-> a.status]
         IN  CASE tag = 0 -> variant("AddRecord", try_from_slice(rest, "AddRecordArgs"))
               [] tag = 1 -> variant("UpdateRecord", try_from_slice(rest, "UpdateRecordArgs"))
               [] OTHER -> variant("BuyRecord", try_from_slice(rest, "BuyRecordArgs"))

\* HeroInstruction::unpack: dispatch on the first byte
unpack(input) ==
    IF input = <<>> THEN [status |-> "InvalidInstruction"]
    ELSE LET tag == Head(input)
             rest == Tail(input)
             variant(name, a) == IF a.status = "Ok"
                                 THEN [status |-> "Ok", variant |-> name, args |-> a.args]
                                 ELSE [status |-> a.status]
         IN  CASE tag = 0 -> variant("AddRecord", try_from_slice(rest, "AddRecordArgs"))
               [] tag = 1 -> variant("UpdateRecord", try_from_slice(rest, "UpdateRecordArgs"))
               [] tag = 2 -> variant("BuyRecord", try_from_slice(rest, "BuyRecordArgs"))
               [] OTHER -> [status |-> "InvalidInstruction"]

\* Processor::process
process(program_id, accounts, instruction_data, repo, ext) ==
    LET instruction == unpack(instruction_data)
    IN  IF instruction.status # "Ok" THEN Out(instruction.status, repo, <<>>, 0)
        ELSE CASE instruction.variant = "AddRecord" ->
                    process_add_record(accounts, instruction.args, program_id, repo)
               [] instruction.variant = "UpdateRecord" ->
                    process_update_record(accounts, instruction.args, program_id, repo)
               [] instruction.variant = "BuyRecord" ->
                    process_buy_record(accounts, instruction.args, program_id, repo, ext)

----------------------------------------------------------------------------
(* The instructions submitted to the program *)

Plain == [shape |-> "none"]
Token(owner, mint, amount) ==
    [shape |-> "token", owner |-> owner, mint |-> mint, amount |-> amount]
Metadata(mint) == [shape |-> "metadata", mint |-> mint]
Base58(k) == [base58 |-> TRUE, key |-> k]
NotBase58 == [base58 |-> FALSE]
AllOk == [transfer_ok |-> TRUE, metadata_ok |-> TRUE, payment_ok |-> TRUE]

Instruction(instruction_data, accounts, ext) ==
    [data |-> instruction_data, accounts |-> accounts, ext |-> ext]

HeroIds == {0, 1, MAX_SLOTS}
Prices == {100, 300}
Mints == {Keys.mint_a, Keys.mint_b}
\* the keys an instruction may present as the asset of a slot
AssetKeys == Mints \cup {Keys.system_program}
\* a content pointer of len bytes of UTF-8: letters "a", the last character
\* a two-byte one (e-acute, C3 A9) when there is room for it
Uri(len) ==
    IF len < 2 THEN [i \in 1..len |-> 97]
    ELSE [i \in 1..(len - 2) |-> 97] \o <<195, 169>>
\* content pointers that fit a slot, and one that does not
FittingUris == {Uri(0), Uri(MaxUriCap)}
Uris == FittingUris \cup {Uri(NFT_RECORD_SIZE)}

AddRecordArgs(hero_id, content_uri, key_nft, last_price, listed_price) ==
    [kind |-> "AddRecordArgs", hero_id |-> hero_id, content_uri |-> content_uri,
     key_nft |-> key_nft, last_price |-> last_price, listed_price |-> listed_price]
UpdateRecordArgs(hero_id, key_nft, new_price, content_uri) ==
    [kind |-> "UpdateRecordArgs", hero_id |-> hero_id, key_nft |-> key_nft,
     new_price |-> new_price, content_uri |-> content_uri]
BuyRecordArgs(hero_id) ==
    [kind |-> "BuyRecordArgs", hero_id |-> hero_id, dead_uri |-> "dead", dead_name |-> "retired"]
Malformed == [kind |-> "malformed"]

\* the accounts of an AddRecord, the first n of them
AddAccounts(n, is_signer, repo_owner) ==
    SubSeq(<<AccountInfo(Keys.alice, is_signer, Keys.system_program, Plain),
             AccountInfo(Keys.repository, FALSE, repo_owner, Plain),
             AccountInfo(Keys.alice_token, FALSE, Keys.token_program, Plain),
             AccountInfo(Keys.pda, FALSE, Keys.system_program, Plain),
             AccountInfo(Keys.token_program, FALSE, Keys.system_program, Plain)>>, 1, n)

\* the accounts of an UpdateRecord, the first n of them
UpdateAccounts(n, is_signer, repo_owner, nft_key, token) ==
    SubSeq(<<AccountInfo(Keys.alice, is_signer, Keys.system_program, Plain),
             AccountInfo(Keys.repository, FALSE, repo_owner, Plain),
             AccountInfo(nft_key, FALSE, Keys.token_program, Plain),
             AccountInfo(Keys.alice_token, FALSE, Keys.token_program, token)>>, 1, n)

\* the accounts of a BuyRecord, the first n of them: bob buys from alice
BuyAccounts(n, is_signer, repo_owner, old_mint, token, meta_owner, meta, new_mint, send, token_program) ==
    SubSeq(<<AccountInfo(Keys.admin, TRUE, Keys.system_program, Plain),
             AccountInfo(Keys.bob, is_signer, Keys.system_program, Plain),
             AccountInfo(Keys.alice, FALSE, Keys.system_program, Plain),
             AccountInfo(Keys.repository, FALSE, repo_owner, Plain),
             AccountInfo(old_mint, FALSE, Keys.token_program, Plain),
             AccountInfo(Keys.alice_token, FALSE, Keys.token_program, token),
             AccountInfo(Keys.metadata, FALSE, meta_owner, meta),
             AccountInfo(new_mint, FALSE, Keys.token_program, Plain),
             send,
             AccountInfo(Keys.bob_token, FALSE, Keys.token_program, Plain),
             AccountInfo(token_program, FALSE, Keys.system_program, Plain),
             AccountInfo(Keys.metadata_program, FALSE, Keys.system_program, Plain),
             AccountInfo(Keys.system_program, FALSE, Keys.system_program, Plain)>>, 1, n)

\* the source of the asset transfer that the account families below use
\* where the source is not the point: the admin's account, holding mint_b
AdminSend ==
    AccountInfo(Keys.admin_token, FALSE, Keys.token_program,
                Token(Keys.admin, Keys.mint_b, 1))

AddIx(h, u, k, last, listed, n, sg, ow) ==
    Instruction(<<0, AddRecordArgs(h, u, k, last, listed)>>, AddAccounts(n, sg, ow), AllOk)

UpdateIx(h, ak, p, u, k, t, n, sg, ow) ==
    Instruction(<<1, UpdateRecordArgs(h, ak, p, u)>>, UpdateAccounts(n, sg, ow, k, t), AllOk)

BuyIx(h, old, t, mo, md, new, send, tp, e, n, sg, ow) ==
    Instruction(<<2, BuyRecordArgs(h)>>,
                BuyAccounts(n, sg, ow, old, t, mo, md, new, send, tp), e)

\* the defects of the leading accounts: a missing signature, a repository
\* not owned by the program
AccountDefects ==
    {<<FALSE, Keys.program_id>>, <<TRUE, Keys.other_program>>,
     <<FALSE, Keys.other_program>>}

\* token-holding records presented for verification: alice's or bob's, of
\* either mint, and two that do not unpack
TokenRecords ==
    {Token(Keys.alice, Keys.mint_a, 1), Token(Keys.bob, Keys.mint_a, 1),
     Token(Keys.alice, Keys.mint_b, 1), [shape |-> "short"], [shape |-> "invalid"]}

\* AddRecord instructions.  Slot 0 takes every argument combination; slot 1
\* and the slot past the end take one record; every defect of the accounts
\* comes with one argument combination.
AddInputs ==
    {AddIx(0, u, k, p[1], p[2], 5, TRUE, Keys.program_id) :
        u \in Uris, k \in {Base58(m) : m \in Mints} \cup {NotBase58},
        p \in Prices \X Prices}
    \cup
    {AddIx(h, Uri(MaxUriCap), Base58(Keys.mint_a), 100, 300, 5, TRUE, Keys.program_id) :
        h \in HeroIds \ {0}}
    \cup
    {AddIx(0, Uri(0), Base58(Keys.mint_a), 100, 300, n, TRUE, Keys.program_id) :
        n \in 0..4}
    \cup
    {AddIx(0, Uri(0), Base58(Keys.mint_a), 100, 300, 5, d[1], d[2]) :
        d \in AccountDefects}

\* UpdateRecord instructions, by alice
UpdateInputs ==
    {UpdateIx(0, ak, p, u, k, Token(Keys.alice, k, 1), 4, TRUE, Keys.program_id) :
        ak \in Mints, p \in Prices, u \in Uris, k \in AssetKeys}
    \cup
    {UpdateIx(h, Keys.mint_a, 100, Uri(0), k, Token(Keys.alice, k, 1),
              4, TRUE, Keys.program_id) :
        h \in HeroIds \ {0}, k \in {Keys.system_program, Keys.mint_a}}
    \cup
    {UpdateIx(0, k, 300, Uri(0), k, Token(Keys.alice, k, 0), 4, TRUE, Keys.program_id) :
        k \in AssetKeys}
    \cup
    {UpdateIx(0, k, 300, Uri(0), k, t, 4, TRUE, Keys.program_id) :
        k \in AssetKeys, t \in TokenRecords}
    \cup
    {UpdateIx(0, Keys.mint_a, 300, Uri(0), Keys.mint_a,
              Token(Keys.alice, Keys.mint_a, 1), n, TRUE, Keys.program_id) :
        n \in 0..3}
    \cup
    {UpdateIx(0, Keys.mint_a, 300, Uri(0), Keys.mint_a,
              Token(Keys.alice, Keys.mint_a, 1), 4, d[1], d[2]) :
        d \in AccountDefects}

\* the token accounts a BuyRecord may name as the source of the asset
\* transfer: the previous owner's verified account or the admin's account,
\* holding either mint
SendAccounts ==
    {AccountInfo(k, FALSE, Keys.token_program, Token(Keys.admin, m, 1)) :
        k \in {Keys.alice_token, Keys.admin_token}, m \in Mints}

\* the answers of the token, metadata and system programs to the invokes
ExtAnswers == [transfer_ok : BOOLEAN, metadata_ok : BOOLEAN, payment_ok : BOOLEAN]

\* BuyRecord instructions: bob buys from alice
BuyInputs ==
    {BuyIx(0, old, Token(Keys.alice, old, 1), Keys.metadata_program, Metadata(old),
           new, send, Keys.token_program, AllOk, 13, TRUE, Keys.program_id) :
        old \in AssetKeys, new \in Mints, send \in SendAccounts}
    \cup
    {BuyIx(h, old, Token(Keys.alice, old, 1), Keys.metadata_program, Metadata(old),
           Keys.mint_b, AdminSend, Keys.token_program, AllOk, 13, TRUE, Keys.program_id) :
        h \in HeroIds \ {0}, old \in {Keys.system_program, Keys.mint_a}}
    \cup
    {BuyIx(0, old, Token(Keys.alice, old, 0), Keys.metadata_program, Metadata(old),
           Keys.mint_b, AdminSend, Keys.token_program, AllOk, 13, TRUE, Keys.program_id) :
        old \in AssetKeys}
    \cup
    {BuyIx(0, old, Token(Keys.alice, old, 1), Keys.metadata_program, Metadata(old),
           Keys.mint_b, AdminSend, Keys.token_program, e, 13, TRUE, Keys.program_id) :
        old \in AssetKeys, e \in ExtAnswers}
    \cup
    {BuyIx(0, Keys.mint_a, t, mo, md, Keys.mint_b, AdminSend, tp, AllOk,
           13, TRUE, Keys.program_id) :
        t \in TokenRecords,
        mo \in {Keys.metadata_program, Keys.other_program},
        md \in {Metadata(Keys.mint_a), Metadata(Keys.mint_b), [shape |-> "invalid"]},
        tp \in {Keys.token_program, Keys.other_program}}
    \cup
    {BuyIx(0, Keys.mint_a, Token(Keys.alice, Keys.mint_a, 1), Keys.metadata_program,
           Metadata(Keys.mint_a), Keys.mint_b, AdminSend, Keys.token_program, AllOk,
           n, TRUE, Keys.program_id) :
        n \in 0..12}
    \cup
    {BuyIx(0, Keys.mint_a, Token(Keys.alice, Keys.mint_a, 1), Keys.metadata_program,
           Metadata(Keys.mint_a), Keys.mint_b, AdminSend, Keys.token_program, AllOk,
           13, d[1], d[2]) :
        d \in AccountDefects}

\* instruction data that names no operation or carries no arguments
InvalidInputs ==
    {Instruction(d, AddAccounts(5, TRUE, Keys.program_id), AllOk) :
        d \in {<<>>, <<3>>, <<255>>, <<3, BuyRecordArgs(0)>>,
               <<0>>, <<1>>, <<2>>, <<0, Malformed>>, <<1, Malformed>>, <<2, Malformed>>}}

----------------------------------------------------------------------------
(* The state machine *)

NoInstruction == [data |-> <<>>, accounts |-> <<>>, ext |-> AllOk]

\* the repository account as created: MAX_SLOTS zeroed slots
Init ==
    /\ data = [i \in 1..(MAX_SLOTS * NFT_RECORD_SIZE) |-> 0]
    /\ pc = "idle"
    /\ ix = NoInstruction
    /\ pre = <<>>
    /\ result = "None"
    /\ trace = <<>>
    /\ step = 0

\* one call of Processor::process on the instruction `in`
Process(in) ==
    /\ LET out == process(Keys.program_id, in.accounts, in.data, data, in.ext)
       IN  /\ data' = out.data
           /\ result' = out.result
           /\ trace' = out.trace
           /\ step' = out.step
    /\ pre' = data
    /\ ix' = in
    /\ pc' = "done"

AddRecord ==
    /\ pc = "idle"
    /\ \E in \in AddInputs : Process(in)
UpdateRecord ==
    /\ pc = "idle"
    /\ \E in \in UpdateInputs : Process(in)
BuyRecord ==
    /\ pc = "idle"
    /\ \E in \in BuyInputs : Process(in)
InvalidInstruction ==
    /\ pc = "idle"
    /\ \E in \in InvalidInputs : Process(in)

\* the instruction has returned; the runtime takes the next one
Return ==
    /\ pc = "done"
    /\ pc' = "idle"
    /\ ix' = NoInstruction
    /\ pre' = <<>>
    /\ result' = "None"
    /\ trace' = <<>>
    /\ step' = 0
    /\ UNCHANGED data

Next == AddRecord \/ UpdateRecord \/ BuyRecord \/ InvalidInstruction \/ Return

Spec == Init /\ [][Next]_vars

----------------------------------------------------------------------------
(* The same program on a repository account created one slot larger than    *)
(* MAX_SLOTS, addressed at the slots around MAX_SLOTS                       *)

EdgeSlots == {MAX_SLOTS - 1, MAX_SLOTS, MAX_SLOTS + 1}

LargeAddInputs ==
    {AddIx(h, u, Base58(Keys.mint_a), p[1], p[2], 5, TRUE, Keys.program_id) :
        h \in EdgeSlots, u \in FittingUris, p \in Prices \X Prices}

LargeUpdateInputs ==
    {UpdateIx(h, Keys.mint_a, p, u, Keys.mint_a, Token(Keys.alice, Keys.mint_a, 1),
              4, TRUE, Keys.program_id) :
        h \in EdgeSlots, p \in Prices, u \in FittingUris}

LargeBuyInputs ==
    {BuyIx(h, Keys.mint_a, Token(Keys.alice, Keys.mint_a, 1), Keys.metadata_program,
           Metadata(Keys.mint_a), Keys.mint_a, AdminSend, Keys.token_program, AllOk,
           13, TRUE, Keys.program_id) :
        h \in EdgeSlots}

InitLarge ==
    /\ data = [i \in 1..((MAX_SLOTS + 1) * NFT_RECORD_SIZE) |-> 0]
    /\ pc = "idle"
    /\ ix = NoInstruction
    /\ pre = <<>>
    /\ result = "None"
    /\ trace = <<>>
    /\ step = 0

AddRecordLarge ==
    /\ pc = "idle"
    /\ \E in \in LargeAddInputs : Process(in)
UpdateRecordLarge ==
    /\ pc = "idle"
    /\ \E in \in LargeUpdateInputs : Process(in)
BuyRecordLarge ==
    /\ pc = "idle"
    /\ \E in \in LargeBuyInputs : Process(in)

NextLarge == AddRecordLarge \/ UpdateRecordLarge \/ BuyRecordLarge \/ Return

SpecLarge == InitLarge /\ [][NextLarge]_vars

----------------------------------------------------------------------------
(* Reading the state *)

Done == pc = "done"
Decoded == unpack(ix.data)
IsAdd == Done /\ Decoded.status = "Ok" /\ Decoded.variant = "AddRecord"
IsUpdate == Done /\ Decoded.status = "Ok" /\ Decoded.variant = "UpdateRecord"
IsBuy == Done /\ Decoded.status = "Ok" /\ Decoded.variant = "BuyRecord"
Args == ix.data[2]

\* the bytes of slot k of a buffer, and the record they hold
InRange(repo, k) == (k + 1) * NFT_RECORD_SIZE <= Len(repo)
Slot(repo, k) == SubSeq(repo, k * NFT_RECORD_SIZE + 1, (k + 1) * NFT_RECORD_SIZE)
Stored(repo, k) == Deserialize(Slot(repo, k))
\* slot k of the buffer holds a record that carries k as its slot id
Holds(repo, k) == InRange(repo, k) /\ Stored(repo, k).ok /\ Stored(repo, k).rec.hero_id = k

\* slot k holds the record of a minted asset
Listed(repo, k) == Holds(repo, k) /\ Stored(repo, k).rec.key_nft \in Mints

Payments == {i \in 1..Len(trace) : trace[i].call = "system_instruction::transfer"}
Saves == {i \in 1..Len(trace) : trace[i].call = "save_nft_data_to_repository"}

\* the step of process_buy_record's doc comment that an entry of the trace
\* belongs to
StepOf(e) ==
    CASE e.call = "spl_token::transfer" -> 2
      [] e.call = "update_metadata_accounts" -> 3
      [] e.call = "save_nft_data_to_repository" -> 4
      [] e.call = "system_instruction::transfer" -> 5

----------------------------------------------------------------------------
(* Claims *)

\* C1: Buy is atomic under failure injection.  A call or write of a Buy that
\* fails is the last thing the Buy does and the Buy returns an error; a Buy
\* that stops with an error in step k has executed nothing of a later step;
\* stopped in steps 1-3 it leaves the repository as it was and has issued no
\* payment, stopped in step 4 it has issued no payment.
C1_BuyAtomicUnderFailure ==
    IsBuy =>
        /\ \A i \in 1..Len(trace) :
               ~trace[i].ok => i = Len(trace) /\ result # "Ok"
        /\ result # "Ok" =>
               /\ \A i \in 1..Len(trace) : StepOf(trace[i]) <= step
               /\ step \in 1..3 => data = pre /\ Payments = {} /\ Saves = {}
               /\ step = 4 => Payments = {}

\* a Buy of a listed record whose metadata call (the third step) was rejected
\* after the asset transfer went through
C1_Witness ==
    /\ IsBuy /\ step = 3 /\ result = "MetadataUpdateFailed"
    /\ Len(trace) = 2 /\ trace[1].ok /\ ~trace[2].ok
    /\ Listed(pre, Args.hero_id)
    /\ Stored(pre, Args.hero_id).rec.key_nft = ix.accounts[5].key
    /\ ~ix.ext.payment_ok
    /\ data = pre

\* C2: after a successful Buy the record's last_price is the listed_price it
\* had before the Buy and its listed_price is as before, both for the record
\* of the addressed slot and for the record the Buy read and wrote back.
C2_BuySettlesLastPrice ==
    (IsBuy /\ result = "Ok") =>
        LET h == Args.hero_id
            before == Stored(pre, h)
            after == Stored(data, h)
            written == Stored(data, before.rec.hero_id)
        IN  /\ before.ok /\ after.ok /\ written.ok
            /\ after.rec.last_price = before.rec.listed_price
            /\ after.rec.listed_price = before.rec.listed_price
            /\ written.rec.last_price = before.rec.listed_price
            /\ written.rec.listed_price = before.rec.listed_price

\* a successful Buy of a record whose last_price differed from its listed_price
C2_Witness ==
    /\ IsBuy /\ result = "Ok"
    /\ Listed(pre, Args.hero_id)
    /\ Stored(pre, Args.hero_id).rec.last_price = 100
    /\ Stored(pre, Args.hero_id).rec.listed_price = 300
    /\ Stored(data, Args.hero_id).rec.last_price = 300

\* C3: a successful Buy issues exactly one payment, from the buyer to the
\* previous holder, of the slot's pre-buy listed_price (the record's
\* last_price after the update), and issues it after the record was written.
C3_BuyPaysListedPriceAfterWrite ==
    (IsBuy /\ result = "Ok") =>
        LET h == Args.hero_id
            last == Len(trace)
        IN  /\ Payments = {last}
            /\ trace[last].ok
            /\ trace[last].from = ix.accounts[2].key
            /\ trace[last].to = ix.accounts[3].key
            /\ trace[last].amount = Stored(pre, h).rec.listed_price
            /\ trace[last].amount = Stored(data, h).rec.last_price
            /\ Saves = {last - 1}
            /\ trace[last - 1].ok
            /\ data = save_nft_data_to_repository(trace[last - 1].record, pre).data

\* a successful Buy of a record listed at 300
C3_Witness ==
    /\ IsBuy /\ result = "Ok"
    /\ Listed(pre, Args.hero_id)
    /\ Stored(pre, Args.hero_id).rec.listed_price = 300
    /\ Len(trace) = 4
    /\ trace[4].amount = 300 /\ trace[4].from = Keys.bob /\ trace[4].to = Keys.alice

\* the account of the caller: the adder or setter (first account), the buyer
\* (second account); present when the instruction supplies that many accounts
CallerPresent ==
    \/ (IsAdd \/ IsUpdate) /\ Len(ix.accounts) >= 1
    \/ IsBuy /\ Len(ix.accounts) >= 2
Caller == IF IsBuy THEN ix.accounts[2] ELSE ix.accounts[1]

\* C4: Add, Update and Buy never succeed when the caller's account is not a
\* signer: the instruction returns MissingRequiredSignature, issues no
\* external call and leaves the repository unchanged.
C4_NoSignerNoEffect ==
    (CallerPresent /\ ~Caller.is_signer) =>
        /\ result = "MissingRequiredSignature"
        /\ trace = <<>>
        /\ data = pre

\* an Add by a non-signer whose accounts and arguments are otherwise in order
C4_Witness ==
    /\ IsAdd /\ Len(ix.accounts) = 5 /\ ~ix.accounts[1].is_signer
    /\ ix.accounts[2].owner = Keys.program_id
    /\ result = "MissingRequiredSignature"

\* the token-holding record an Update or Buy presents, the holder it must
\* name and the asset it must be of
PresentsHolding ==
    \/ IsUpdate /\ Len(ix.accounts) >= 4
    \/ IsBuy /\ Len(ix.accounts) >= 7
Holding == IF IsBuy THEN ix.accounts[6].data ELSE ix.accounts[4].data
NamedHolder == IF IsBuy THEN ix.accounts[3] ELSE ix.accounts[1]
PresentedAsset == IF IsBuy THEN ix.accounts[5] ELSE ix.accounts[3]
HoldingMatches ==
    /\ PresentsHolding
    /\ Holding.shape = "token"
    /\ Holding.owner = NamedHolder.key
    /\ Holding.mint = PresentedAsset.key
\* the instruction gets as far as the ownership check
ReachesOwnershipCheck ==
    /\ PresentsHolding
    /\ Caller.is_signer
    /\ (IF IsBuy THEN ix.accounts[4] ELSE ix.accounts[2]).owner = Keys.program_id
    /\ Holding.shape = "token"

\* C5: Update and Buy never succeed unless the presented token-holding record
\* names the caller (Update) or the previous holder (Buy) as holder and the
\* presented asset as its asset; an instruction with a mismatch makes no
\* external call and leaves the repository unchanged, and one that reaches
\* the ownership check fails with InvalidArgument.
C5_HolderMismatchIsFatal ==
    ((IsUpdate \/ IsBuy) /\ ~HoldingMatches) =>
        /\ result # "Ok"
        /\ trace = <<>>
        /\ data = pre
        /\ ReachesOwnershipCheck => result = "InvalidArgument"

\* a Buy of a listed record from an account that the token-holding record
\* does not name as the holder of the asset
C5_Witness ==
    /\ IsBuy /\ ReachesOwnershipCheck
    /\ Holding.owner # NamedHolder.key
    /\ Holding.mint = PresentedAsset.key
    /\ Listed(pre, Args.hero_id)
    /\ Stored(pre, Args.hero_id).rec.key_nft = PresentedAsset.key
    /\ result = "InvalidArgument"

\* C6: a successful Update changes only listed_price (to new_price) and
\* content_uri (to the supplied value): the record it wrote back has the
\* slot id, asset_key and last_price of the record it read, and so has the
\* record of the addressed slot when that slot held a record of its own id.
C6_UpdateFrame ==
    (IsUpdate /\ result = "Ok") =>
        LET h == Args.hero_id
            before == Stored(pre, h)
            written == Stored(data, before.rec.hero_id)
            after == Stored(data, h)
        IN  /\ before.ok /\ written.ok /\ after.ok
            /\ written.rec = [before.rec EXCEPT !.listed_price = Args.new_price,
                                                !.content_uri = Args.content_uri]
            /\ after.rec.hero_id = before.rec.hero_id
            /\ after.rec.key_nft = before.rec.key_nft
            /\ after.rec.last_price = before.rec.last_price
            /\ Holds(pre, h) => after.rec = written.rec

\* a successful Update of a listed record to another price and content_uri
C6_Witness ==
    /\ IsUpdate /\ result = "Ok"
    /\ Listed(pre, Args.hero_id)
    /\ Stored(pre, Args.hero_id).rec.listed_price # Args.new_price
    /\ Stored(pre, Args.hero_id).rec.content_uri # Args.content_uri
    /\ Stored(pre, Args.hero_id).rec.last_price # Args.new_price
    /\ Stored(data, Args.hero_id).rec.listed_price = Args.new_price

\* the slots of the repository that instructions address
UsedSlots == {k \in HeroIds : InRange(data, k)}

\* C7: reading a slot with an asset key that differs from the key stored in
\* it fails, whatever the slot holds (every buffer the program leaves is read
\* between instructions, with every pair of key argument and account key);
\* and an Update or Buy that presents an asset other than the one stored in
\* the addressed slot fails and leaves the repository unchanged.
C7_ReadChecksAssetKey ==
    /\ pc = "idle" =>
           \A k \in UsedSlots :
               LET stored == Stored(data, k)
               IN  \A k1 \in AssetKeys : \A k2 \in AssetKeys :
                       (~stored.ok \/ stored.rec.key_nft # k1 \/ stored.rec.key_nft # k2)
                           => get_nft_data_from_repository(k, k1, data, k2).status # "Ok"
    /\ ((IsUpdate \/ IsBuy) /\ PresentsHolding /\ InRange(pre, Args.hero_id)
            /\ (~Stored(pre, Args.hero_id).ok
                \/ Stored(pre, Args.hero_id).rec.key_nft # PresentedAsset.key))
           => result # "Ok" /\ data = pre

\* an Update by the holder of mint_b addressed to a slot that stores mint_a
C7_Witness ==
    /\ IsUpdate /\ HoldingMatches /\ ReachesOwnershipCheck
    /\ Listed(pre, Args.hero_id)
    /\ PresentedAsset.key = Keys.mint_b
    /\ Stored(pre, Args.hero_id).rec.key_nft = Keys.mint_a
    /\ result = "Panic"
    /\ data = pre

\* C8: Update fails with InvalidNFTKey and leaves the record unchanged
\* whenever the asset key carried in the instruction (UpdateRecordArgs.key_nft)
\* differs from the asset key stored in the addressed slot; stated for the
\* Updates that the holder of the slot's asset submits, which the account
\* checks let through.
C8_UpdateChecksKeyArgument ==
    (/\ IsUpdate /\ HoldingMatches /\ ReachesOwnershipCheck
     /\ Listed(pre, Args.hero_id)
     /\ PresentedAsset.key = Stored(pre, Args.hero_id).rec.key_nft
     /\ Args.key_nft # Stored(pre, Args.hero_id).rec.key_nft)
        => result = "InvalidNFTKey" /\ data = pre

\* C9: an Add, Update or Buy whose slot id is MAX_SLOTS or more fails and
\* writes nothing to the repository, whatever the size of the buffer.
C9_SlotIdBeyondMaxSlotsFails ==
    ((IsAdd \/ IsUpdate \/ IsBuy) /\ Args.hero_id >= MAX_SLOTS)
        => result # "Ok" /\ data = pre

\* C10: a record written to a slot below MAX_SLOTS is read back, with its own
\* asset key, equal in every field: each record an instruction has stored
\* (by Add, Update or Buy) is what get_nft_data_from_repository returns for
\* its slot from the buffer the instruction leaves.
C10_WriteReadRoundTrip ==
    Done =>
        \A i \in Saves :
            (trace[i].ok /\ trace[i].record.hero_id < MAX_SLOTS) =>
                LET r == trace[i].record
                    g == get_nft_data_from_repository(r.hero_id, r.key_nft, data, r.key_nft)
                IN  g.status = "Ok" /\ g.rec = r

\* an Add that stored a record with a content_uri filling the slot, a key and
\* prices of more than one byte, over a slot that held another record
C10_Witness ==
    /\ IsAdd /\ result = "Ok"
    /\ Saves = {1} /\ trace[1].ok
    /\ Len(trace[1].record.content_uri) = MaxUriCap
    /\ trace[1].record.key_nft = Keys.mint_b
    /\ trace[1].record.last_price = 300
    /\ Listed(pre, Args.hero_id)
    /\ Stored(pre, Args.hero_id).rec # trace[1].record
    /\ Stored(data, Args.hero_id).rec = trace[1].record

\* the delegate grants (spl_token approve) among the calls of the instruction
Approvals == {i \in 1..Len(trace) : trace[i].call = "spl_token::approve"}
Transfers == {i \in 1..Len(trace) : trace[i].call = "spl_token::transfer"}

\* C11: an Add that writes a record has first requested a delegate grant of
\* one unit from the caller's token account to the program authority, and
\* the grant succeeded: every write of an Add comes after a successful
\* approve call.
C11_AddGrantsBeforeWrite ==
    (IsAdd /\ Saves # {}) =>
        \E i \in Approvals :
            /\ trace[i].ok
            /\ \A j \in Saves : i < j

\* C12: a successful Buy makes, in this order, the asset transfer, the
\* re-delegation of the buyer's holding to the program authority, the record
\* write and the payment, each after the preceding one succeeded.
C12_BuyFiveStepsInOrder ==
    (IsBuy /\ result = "Ok") =>
        \E t \in Transfers : \E a \in Approvals : \E w \in Saves : \E p \in Payments :
            /\ t < a /\ a < w /\ w < p
            /\ trace[t].ok /\ trace[a].ok /\ trace[w].ok /\ trace[p].ok

\* C13: the asset transfer of a Buy moves one unit from the previous holder's
\* token account (the one verified in step 1) to the buyer's token account
\* under the authority of the program-derived address.
C13_TransferByProgramAuthority ==
    IsBuy =>
        \A t \in Transfers :
            /\ trace[t].amount = 1
            /\ trace[t].source = ix.accounts[6].key
            /\ trace[t].destination = ix.accounts[10].key
            /\ trace[t].authority = Keys.pda


\* the slots that held the record of a minted asset before the instruction
ListedBefore == {k \in HeroIds : Listed(pre, k)}

\* C14: once a slot holds a record, its listed_price changes only in a
\* successful Update and its last_price only in a successful Buy, which sets
\* it to the listed_price before the Buy; an Add on a filled slot alters
\* neither price.
C14_PricesChangeOnlyByUpdateAndBuy ==
    Done =>
        \A k \in ListedBefore :
            LET before == Stored(pre, k).rec
                after == Stored(data, k)
            IN  /\ after.ok
                /\ after.rec.listed_price # before.listed_price
                       => IsUpdate /\ result = "Ok"
                /\ after.rec.last_price # before.last_price
                       => /\ IsBuy /\ result = "Ok"
                          /\ after.rec.last_price = before.listed_price

\* C15: the listed_price of an existing record changes only in an
\* instruction whose signer the ownership oracle reports as the holder of the
\* asset stored in the slot: the instruction presents a token-holding record
\* that names its caller, a signer, as holder of the slot's asset.
C15_OnlyHolderChangesListedPrice ==
    Done =>
        \A k \in ListedBefore :
            (~Stored(data, k).ok
                \/ Stored(data, k).rec.listed_price # Stored(pre, k).rec.listed_price)
            => /\ CallerPresent /\ Caller.is_signer
               /\ PresentsHolding
               /\ Holding.shape = "token"
               /\ Holding.owner = Caller.key
               /\ Holding.mint = Stored(pre, k).rec.key_nft

\* C16: an Add, Update or Buy that ends in an error leaves every slot of the
\* repository as it was before the instruction, also a Buy whose payment
\* fails after the record was written.
C16_ErrorLeavesRepositoryUnchanged ==
    ((IsAdd \/ IsUpdate \/ IsBuy) /\ result # "Ok") => data = pre

\* C17: an Update or Buy whose presented token-holding record reports an
\* amount other than one unit fails and leaves the repository unchanged.
C17_AmountMismatchIsFatal ==
    ((IsUpdate \/ IsBuy) /\ PresentsHolding /\ Holding.shape = "token"
        /\ Holding.amount # 1)
        => result # "Ok" /\ data = pre

\* what the instruction returned and left, as a handler's outcome
Outcome == Out(result, data, trace, step)
\* the instruction data carries, after its tag, the arguments of `kind`
Carries(kind) == Len(ix.data) = 2 /\ ix.data[2].kind = kind

\* C18: dispatch is by the first byte of the instruction data.  Tag 0 with
\* AddRecord arguments has the outcome of process_add_record on the accounts
\* and the repository, tag 1 that of process_update_record, tag 2 that of
\* process_buy_record; empty data and every other tag, whatever follows it,
\* return InvalidInstruction with no call made and the repository unchanged.
C18_DispatchByFirstByte ==
    Done =>
        LET d == ix.data
        IN  /\ (d = <<>> \/ Head(d) \notin {0, 1, 2}) =>
                   result = "InvalidInstruction" /\ trace = <<>> /\ data = pre
            /\ (d # <<>> /\ Head(d) = 0 /\ Carries("AddRecordArgs")) =>
                   Outcome = process_add_record(ix.accounts, d[2], Keys.program_id, pre)
            /\ (d # <<>> /\ Head(d) = 1 /\ Carries("UpdateRecordArgs")) =>
                   Outcome = process_update_record(ix.accounts, d[2], Keys.program_id, pre)
            /\ (d # <<>> /\ Head(d) = 2 /\ Carries("BuyRecordArgs")) =>
                   Outcome = process_buy_record(ix.accounts, d[2], Keys.program_id,
                                                pre, ix.ext)

\* instruction data with tag 3 followed by well-formed BuyRecord arguments,
\* submitted to a repository that holds a record
C18_Witness ==
    /\ Done /\ Len(ix.data) = 2 /\ ix.data[1] = 3
    /\ ix.data[2].kind = "BuyRecordArgs"
    /\ Listed(pre, 0)
    /\ result = "InvalidInstruction"
    /\ data = pre

\* the Updates and Buys that may follow on slot h, with the accounts up to the
\* asset they present, and that asset
LaterOn(h) ==
    {in \in UpdateInputs \cup BuyInputs :
        /\ in.data[2].hero_id = h
        /\ Len(in.accounts) >= (IF in.data[1] = 1 THEN 3 ELSE 5)}
AssetOf(in) == IF in.data[1] = 1 THEN in.accounts[3].key ELSE in.accounts[5].key
\* the outcome of submitting `in` next, to the repository as it is now
After(in) == process(Keys.program_id, in.accounts, in.data, data, in.ext)

\* C19: a successful Buy rebinds the slot it addresses: the slot then stores
\* the new mint presented to the Buy under the same slot id.  When the new
\* mint differs from the old one, every Update or Buy submitted next on the
\* slot that presents the old asset fails and changes nothing, every one that
\* succeeds presents the new asset, and the holder of the new asset can
\* update the slot.
C19_BuyRebindsSlot ==
    (IsBuy /\ result = "Ok") =>
        LET h == Args.hero_id
            old == ix.accounts[5].key
            new == ix.accounts[8].key
            after == Stored(data, h)
        IN  /\ after.ok
            /\ after.rec.key_nft = new
            /\ after.rec.hero_id = h
            /\ old # new =>
                /\ \A in \in LaterOn(h) :
                       /\ AssetOf(in) = old =>
                              After(in).result # "Ok" /\ After(in).data = data
                       /\ After(in).result = "Ok" => AssetOf(in) = new
                /\ After(UpdateIx(h, new, 300, Uri(0), new, Token(Keys.alice, new, 1),
                                  4, TRUE, Keys.program_id)).result = "Ok"

\* slot k of the buffer has been written to
Filled(repo, k) == InRange(repo, k) /\ \E i \in 1..NFT_RECORD_SIZE : Slot(repo, k)[i] # 0

\* C20: slot isolation.  Every record stored by Add, Update or Buy lies at the
\* offset of the slot id it carries; every filled slot k that holds a record
\* holds one whose slot id is k; and an Update or Buy addressed to slot k
\* leaves the bytes of every other slot as they were.
C20_SlotIsolation ==
    Done =>
        /\ \A i \in Saves :
               trace[i].ok => /\ Holds(data, trace[i].record.hero_id)
                              /\ Stored(data, trace[i].record.hero_id).rec = trace[i].record
        /\ \A k \in UsedSlots :
               (Filled(data, k) /\ Stored(data, k).ok) => Stored(data, k).rec.hero_id = k
        /\ (IsUpdate \/ IsBuy) =>
               \A k \in UsedSlots \ {Args.hero_id} : Slot(data, k) = Slot(pre, k)

\* C21: after a successful Buy the asset key stored in the slot is the asset
\* of the unit that the Buy transferred to the buyer: the token account the
\* transfer took the unit from holds the mint the record is rebound to.
C21_StoredKeyIsTransferredAsset ==
    (IsBuy /\ result = "Ok") =>
        \A t \in Transfers :
            /\ trace[t].source = ix.accounts[9].key
            /\ ix.accounts[9].data.shape = "token"
            /\ ix.accounts[9].data.mint = ix.accounts[8].key
            /\ ix.accounts[9].data.mint = Stored(data, Args.hero_id).rec.key_nft

====
